---- MODULE Spec2Model ----
(***************************************************************************)
(* Model of the caramel bootloader's bootstrap layer:                      *)
(*   - shared/lockcell  : the ticket spinlock LockCell<T>                  *)
(*   - bootloader/mm.rs : PMEM_FREE, GlobalAllocator::alloc/dealloc, init   *)
(*   - bootloader/pxe.rs: download                                         *)
(*   - shared/pe_parser : PeParser::parse and sections                     *)
(* The specifications share the variables: SpecLock, SpecLockFair and      *)
(* SpecCell (contexts on one LockCell), SpecMM (the boot thread on         *)
(* PMEM_FREE), SpecWalk (init against a firmware list that may not end),   *)
(* SpecBoot (overlapping calls on PMEM_FREE), SpecPxe (one run of          *)
(* download) and SpecPe (parse and sections on one image).                 *)
(***************************************************************************)
EXTENDS Integers, Sequences, FiniteSets, TLC

VARIABLES
    \* ---- LockCell (lockcell/src/lib.rs) ----
    ticket,        \* LockCell.ticket  (AtomicUsize)
    release,       \* LockCell.release (AtomicUsize)
    pc,            \* per context: "idle" | "spin" (in lock()) | "held" | "relock" (in lock() while holding a guard)
    myTicket,      \* per context: the local `ticket` of lock(), kept while the guard lives (0 otherwise)
    guardTicket,   \* history, per context: <<t>> while it holds a guard that lock() returned for ticket t, else <<>>
    waitq,         \* history: contexts that took a ticket and were not yet admitted, in fetch_add order
    val,           \* LockCell.val (UnsafeCell<T>), the guarded value
    left,          \* history: the last value written by a guard that was dropped since (at first: the value given to new)
    wrote,         \* history, per context: <<v>> once it wrote v through its current guard, else <<>>
    \* ---- physical memory manager (bootloader/src/mm.rs) ----
    pmem,          \* the value inside PMEM_FREE: Option<RangeSet>
    mmpc,          \* "idle" | "walk" (inside init's loops) | "halted" (panic -> cpu::halt)
    add_free_mem,  \* init: the loop variable of `for &add_free_mem in &[true, false]`
    ebx,           \* init: regs.ebx, the E820 continuation value
    free_memory,   \* init: the local RangeSet being built
    e820,          \* the firmware's memory map (what int 0x15/E820 reports)
    last,          \* history: the last completed mm call and its result
    before,        \* history: the value of PMEM_FREE when the last call started
    initDone,      \* history: number of init() calls that ran to completion
    live,          \* history: ranges returned by successful alloc since the last dealloc
    ncalls,        \* history: number of mm calls started (bounded by MaxCalls)
    carry,         \* history: an E820 call returned with the carry flag set
    e820calls,     \* history: number of E820 calls made
    e820tail,      \* the firmware: the continuation value it returns with its last entry (0: the list ends)
    walkCalls,     \* history: number of E820 calls made in the current walk of init
    job,           \* per context: the mm call it is in (SpecBoot), and the number of completed init()s it has to wait for
    fin,           \* history: the last alloc or dealloc a context completed (SpecBoot)
    \* ---- network boot negotiation (bootloader/src/pxe.rs) ----
    pxpc,          \* position in download: "presence" | "pxenv" | "pxe" | "cached" | "fsize" | "done" | "halted"
    fwmem,         \* firmware memory: linear address -> the bytes found there
    regs,          \* download: regs after the int 0x1a call
    pxenv,         \* download: the PXENV+ bytes read
    pxe,           \* download: the !PXE bytes read
    status,        \* download: st.status after PXE_GET_CACHED_INFO
    server_ip,     \* download: server_ip, the bytes 0x14..0x18 read from pkt_buf (<<>> until read)
    fwcalls,       \* history: the firmware calls issued so far, in order
    filenameLen,   \* download: filename.len()
    log,           \* history: the steps of download performed so far, in order
    ret,           \* download's result: "running" | "None" | "Some"
    \* ---- executable image parser (shared/pe_parser/src/lib.rs) ----
    img,           \* history: the fields the input image was synthesized from
    bytes,         \* the input of PeParser::parse
    usizeBytes,    \* width of usize on the target, in bytes (4 on i586, 8 on x86_64)
    pepc,          \* "parse" | "sections" (in the loop of sections) | "done" | "halted" (index panic)
    parsed,        \* what parse returned: None, or Some(PeParser { .. })
    section,       \* sections: the loop variable
    cbs,           \* history: the invocations of the callback, in order
    aborted,       \* history: the callback returned None
    sret           \* what sections returned: "running" | "None" | "Some"

lockVars == <<ticket, release, pc, myTicket, guardTicket, waitq, val, left, wrote>>
mmVars   == <<pmem, mmpc, add_free_mem, ebx, free_memory, e820, last, before, initDone, live, ncalls, carry, e820calls,
             e820tail, walkCalls, job, fin>>
pxeVars  == <<pxpc, fwmem, regs, pxenv, pxe, status, server_ip, fwcalls, filenameLen, log, ret>>
peVars   == <<img, bytes, usizeBytes, pepc, parsed, section, cbs, aborted, sret>>
vars     == <<lockVars, mmVars, pxeVars, peVars>>

(***************************************************************************)
(* Bounds                                                                  *)
(***************************************************************************)
\* Number of contexts sharing one LockCell.
NCtx == 3
\* Width of the model's AtomicUsize counters (the code's usize is 32 or 64 bits).
CounterBits == 3
\* Largest section count of a synthesized image.
MaxSections == 2
\* Longest firmware memory map.
MaxEntries == 2
\* Number of calls of init/alloc/dealloc in one run.
MaxCalls == 3
\* E820 calls counted within one walk of init (a sound firmware needs MaxEntries)
MaxWalkCalls == MaxEntries + 2

Ctx == 1..NCtx
\* the value given to LockCell::new and the values written through a guard
InitialValue == 5
CellValues == {5, 10}
Wrap(x) == x % (2 ^ CounterBits)

(***************************************************************************)
(* LockCell<T>                                                             *)
(***************************************************************************)
\* `while self.release.load() != ticket` falls through
SpinDoneLe(t) == release <= t
SpinDone(t) == release = t

LockInit ==
    /\ ticket = 0
    /\ release = 0
    /\ pc = [c \in Ctx |-> "idle"]
    /\ myTicket = [c \in Ctx |-> 0]
    /\ guardTicket = [c \in Ctx |-> <<>>]
    /\ waitq = <<>>
    /\ val = InitialValue
    /\ left = InitialValue
    /\ wrote = [c \in Ctx |-> <<>>]

\* let ticket = self.ticket.fetch_add(1, SeqCst)
FetchTicket(c) ==
    /\ pc[c] = "idle"
    /\ myTicket' = [myTicket EXCEPT ![c] = ticket]
    /\ ticket' = Wrap(ticket + 1)
    /\ pc' = [pc EXCEPT ![c] = "spin"]
    /\ waitq' = Append(waitq, c)
    /\ UNCHANGED <<release, guardTicket, val, left, wrote>>
    /\ UNCHANGED <<mmVars, pxeVars, peVars>>

\* lock() called by a context that already holds a guard of the same cell
Relock(c) ==
    /\ pc[c] = "held"
    /\ myTicket' = [myTicket EXCEPT ![c] = ticket]
    /\ ticket' = Wrap(ticket + 1)
    /\ pc' = [pc EXCEPT ![c] = "relock"]
    /\ waitq' = Append(waitq, c)
    /\ UNCHANGED <<release, guardTicket, val, left, wrote>>
    /\ UNCHANGED <<mmVars, pxeVars, peVars>>

\* the spin loop ends and lock() returns the guard
Admit(c) ==
    /\ pc[c] \in {"spin", "relock"}
    /\ SpinDone(myTicket[c])
    /\ pc' = [pc EXCEPT ![c] = "held"]
    /\ waitq' = SelectSeq(waitq, LAMBDA x : x /= c)
    /\ guardTicket' = [guardTicket EXCEPT ![c] = <<myTicket[c]>>]
    /\ UNCHANGED <<ticket, release, myTicket, val, left, wrote>>
    /\ UNCHANGED <<mmVars, pxeVars, peVars>>

\* Deref for LockCellGuard: &*self.cell.val.get()
Deref(c) == val

\* DerefMut for LockCellGuard followed by a store: *guard = v
\* (DerefMutLost: the store goes to a copy and never reaches the cell)
DerefMutLost(v) == val
DerefMutStore(v) == v
WriteGuard(c, v) ==
    /\ pc[c] = "held"
    /\ val' = DerefMutStore(v)
    /\ wrote' = [wrote EXCEPT ![c] = <<v>>]
    /\ UNCHANGED <<ticket, release, pc, myTicket, guardTicket, waitq, left>>
    /\ UNCHANGED <<mmVars, pxeVars, peVars>>

\* Drop for LockCellGuard: self.cell.release.fetch_add(1, SeqCst)
DropGuardSkip(c) ==
    /\ pc[c] = "held"
    /\ release' = Wrap(release + 2)
    /\ pc' = [pc EXCEPT ![c] = "idle"]
    /\ left' = IF wrote[c] = <<>> THEN left ELSE wrote[c][1]
    /\ wrote' = [wrote EXCEPT ![c] = <<>>]
    /\ myTicket' = [myTicket EXCEPT ![c] = 0]
    /\ guardTicket' = [guardTicket EXCEPT ![c] = <<>>]
    /\ UNCHANGED <<ticket, waitq, val>>
    /\ UNCHANGED <<mmVars, pxeVars, peVars>>
DropGuardForget(c) ==
    /\ pc[c] = "held"
    /\ release' = release
    /\ pc' = [pc EXCEPT ![c] = "idle"]
    /\ left' = IF wrote[c] = <<>> THEN left ELSE wrote[c][1]
    /\ wrote' = [wrote EXCEPT ![c] = <<>>]
    /\ myTicket' = [myTicket EXCEPT ![c] = 0]
    /\ guardTicket' = [guardTicket EXCEPT ![c] = <<>>]
    /\ UNCHANGED <<ticket, waitq, val>>
    /\ UNCHANGED <<mmVars, pxeVars, peVars>>
DropGuard(c) ==
    /\ pc[c] = "held"
    /\ release' = Wrap(release + 1)
    /\ pc' = [pc EXCEPT ![c] = "idle"]
    /\ left' = IF wrote[c] = <<>> THEN left ELSE wrote[c][1]
    /\ wrote' = [wrote EXCEPT ![c] = <<>>]
    /\ myTicket' = [myTicket EXCEPT ![c] = 0]
    /\ guardTicket' = [guardTicket EXCEPT ![c] = <<>>]
    /\ UNCHANGED <<ticket, waitq, val>>
    /\ UNCHANGED <<mmVars, pxeVars, peVars>>

(***************************************************************************)
(* u64 values.  TLC's integers are 32 bits wide, so a u64 is held in its    *)
(* two's-complement reading: v < 2^63 is the integer v, and v >= 2^63 is    *)
(* the negative integer v - 2^64 (u64::MAX is -1).  The model only uses     *)
(* values within 2^30 of either end of the u64 range, where the operators   *)
(* below are exact.                                                        *)
(***************************************************************************)
U64Max == 0 - 1
ULt(a, b) == IF (a < 0) = (b < 0) THEN a < b ELSE b < 0
ULe(a, b) == a = b \/ ULt(a, b)
\* u64::checked_add(a, b) is None
AddOverflows(a, b) ==
    \/ (a < 0 /\ b < 0)
    \/ ((a < 0) /= (b < 0) /\ a + b >= 0)
UMin(S) == CHOOSE x \in S : \A y \in S : ULe(x, y)
UMax(S) == CHOOSE x \in S : \A y \in S : ULe(y, x)

(***************************************************************************)
(* rangeset::RangeSet, the physical-memory range tracker: a set of         *)
(* inclusive ranges [start, end], pairwise disjoint and not adjacent.      *)
(***************************************************************************)
Range(s, e) == [start |-> s, end |-> e]
Overlaps(x, r) == ULe(x.start, r.end) /\ ULe(r.start, x.end)
Touches(x, r) ==
    \/ Overlaps(x, r)
    \/ (x.end /= U64Max /\ x.end + 1 = r.start)
    \/ (r.end /= U64Max /\ r.end + 1 = x.start)
\* byte b is free in range set S
IsFree(S, b) == \E x \in S : ULe(x.start, b) /\ ULe(b, x.end)
\* every byte of r is free in S (S is coalesced, so one range holds all of r)
Covers(S, r) == \E x \in S : ULe(x.start, r.start) /\ ULe(r.end, x.end)
\* no byte of r is free in S
DisjointFrom(S, r) == \A x \in S : ~Overlaps(x, r)

\* RangeSet::new()
RangeSetNew == {}

\* RangeSet::insert(range): mark free, merging with adjacent/overlapping ranges
RangeSetInsert(S, r) ==
    LET T == {x \in S : Touches(x, r)}
    IN  (S \ T) \cup {Range(UMin({x.start : x \in T} \cup {r.start}),
                            UMax({x.end : x \in T} \cup {r.end}))}

\* RangeSet::remove(range): mark unavailable, splitting partially covered ranges
RangeSetRemove(S, r) ==
    LET Pieces(x) ==
            IF ~Overlaps(x, r) THEN {x}
            ELSE (IF ULt(x.start, r.start) THEN {Range(x.start, r.start - 1)} ELSE {})
                 \cup (IF ULt(r.end, x.end) THEN {Range(r.end + 1, x.end)} ELSE {})
    IN  UNION {Pieces(x) : x \in S}

\* the lowest address >= a that is a multiple of align
AlignUp(a, align) == IF a % align = 0 THEN a ELSE a + (align - (a % align))

\* RangeSet::allocate(size, align): the possible outcomes.  Each is the value
\* returned (some/ptr) and the set left behind; which fitting range is used is
\* left open (first fit and best fit are both among the outcomes).
RangeSetAllocate(S, size, align) ==
    LET Fit(x) ==
            /\ ~AddOverflows(x.start, align - 1)
            /\ ~AddOverflows(AlignUp(x.start, align), size - 1)
            /\ ULe(AlignUp(x.start, align) + (size - 1), x.end)
        cands == {x \in S : Fit(x)}
    IN  IF size = 0 \/ cands = {}
        THEN {[some |-> FALSE, ptr |-> 0, set |-> S]}
        ELSE {[some |-> TRUE, ptr |-> AlignUp(x.start, align),
               set |-> RangeSetRemove(S, Range(AlignUp(x.start, align),
                                               AlignUp(x.start, align) + (size - 1)))]
              : x \in cands}

(***************************************************************************)
(* bootloader/src/mm.rs                                                    *)
(***************************************************************************)
None == [some |-> FALSE, set |-> {}]
Some(S) == [some |-> TRUE, set |-> S]

\* A finished call.  tk: LockCell.ticket when the call started.
Call(op, ptr, size, align, res, clash, tk) ==
    [op |-> op, ptr |-> ptr, size |-> size, align |-> align,
     ret |-> res, clash |-> clash, tk |-> tk]
NoCall == Call("none", 0, 0, 0, 0, FALSE, 0)

\* What PMEM_FREE holds after `pmem.and_then(|mut x| ..)`: Option::and_then takes
\* the Option by value, so the closure's x is a copy of the RangeSet read through
\* the guard and the closure's changes (modified) never reach the cell.
StoredAfterAndThen(stored, modified) == stored

\* `.unwrap_or(0) as *mut u8` of alloc
AllocExpect(r) == IF r.some THEN [halt |-> FALSE, ptr |-> r.ptr] ELSE [halt |-> TRUE, ptr |-> 0]
AllocUnwrapOr0(r) == IF r.some THEN [halt |-> FALSE, ptr |-> r.ptr] ELSE [halt |-> FALSE, ptr |-> 0]

\* `if layout.size() <= 0 { return; }` of dealloc
DeallocIsNoop(size) == size <= 0

\* `(ptr as u64).checked_add(layout.size() as u64 - 1)?` of dealloc is None
DeallocEndWrapping(ptr, size) == FALSE
DeallocEndOverflows(ptr, size) == AddOverflows(ptr, size - 1)

\* `assert!(pmem.is_none(), ..)` of init holds
InitAssertNever(p) == TRUE
InitAssertHolds(p) == ~p.some

\* init's per-entry step (the if / else if after the E820 call): the new
\* free_memory, or a panic when checked_add(..).unwrap() overflows.
WalkEntrySinglePass(pass_add, entry, fm) ==
    IF entry.size > 0 /\ AddOverflows(entry.base, entry.size - 1)
    THEN [halt |-> TRUE, set |-> fm]
    ELSE IF pass_add /\ entry.typ = 1 /\ entry.size > 0
    THEN [halt |-> FALSE, set |-> RangeSetInsert(fm, Range(entry.base, entry.base + (entry.size - 1)))]
    ELSE IF pass_add /\ entry.typ /= 1 /\ entry.size > 0
    THEN [halt |-> FALSE, set |-> RangeSetRemove(fm, Range(entry.base, entry.base + (entry.size - 1)))]
    ELSE [halt |-> FALSE, set |-> fm]
WalkEntry(pass_add, entry, fm) ==
    IF pass_add /\ entry.typ = 1 /\ entry.size > 0
    THEN IF AddOverflows(entry.base, entry.size - 1)
         THEN [halt |-> TRUE, set |-> fm]
         ELSE [halt |-> FALSE,
               set |-> RangeSetInsert(fm, Range(entry.base, entry.base + (entry.size - 1)))]
    ELSE IF ~pass_add /\ entry.typ /= 1 /\ entry.size > 0
    THEN IF AddOverflows(entry.base, entry.size - 1)
         THEN [halt |-> TRUE, set |-> fm]
         ELSE [halt |-> FALSE,
               set |-> RangeSetRemove(fm, Range(entry.base, entry.base + (entry.size - 1)))]
    ELSE [halt |-> FALSE, set |-> fm]

\* `free_memory.remove(Range { start: 0x0, end: (1024 * 1024) - 1 })`
LowMemEnd == (1024 * 1024) - 1
RemoveLowMem(fm) == RangeSetRemove(fm, Range(0, LowMemEnd))

\* The firmware's answer to int 0x15/E820 with continuation ebx: the entry and
\* the next continuation.  A sound firmware returns 0 with its last entry
\* (e820tail = 0); a firmware with e820tail /= 0 never ends its list.
E820Answer(cont) ==
    [entry |-> e820[cont + 1],
     ebx   |-> IF cont + 1 < Len(e820) THEN cont + 1 ELSE e820tail]

\* PMEM_FREE.lock() by the single boot thread returns iff every earlier guard
\* was dropped (release = the ticket just taken).
LockReturns == SpinDone(ticket)

\* GlobalAllocator::alloc(layout)
Alloc(size, align) ==
    /\ mmpc = "idle"
    /\ ncalls < MaxCalls
    /\ LockReturns
    /\ \E out \in (IF pmem.some THEN RangeSetAllocate(pmem.set, size, align)
                                ELSE {[some |-> FALSE, ptr |-> 0, set |-> {}]}) :
          LET r == AllocUnwrapOr0(out)
              got == Range(r.ptr, r.ptr + (size - 1))
          IN  /\ pmem' = IF pmem.some THEN StoredAfterAndThen(pmem, Some(out.set)) ELSE pmem
              /\ mmpc' = IF r.halt THEN "halted" ELSE "idle"
              /\ release' = IF r.halt THEN release ELSE Wrap(release + 1)
              /\ last' = Call("alloc", 0, size, align, r.ptr,
                              out.some /\ \E x \in live : Overlaps(x, got), ticket)
              /\ live' = IF out.some THEN live \cup {got} ELSE live
    /\ ticket' = Wrap(ticket + 1)
    /\ before' = pmem
    /\ ncalls' = ncalls + 1
    /\ UNCHANGED <<add_free_mem, ebx, free_memory, e820, initDone, carry, e820calls, e820tail, walkCalls, job, fin>>
    /\ UNCHANGED <<pc, myTicket, guardTicket, waitq, val, left, wrote, pxeVars, peVars>>

\* GlobalAllocator::dealloc(ptr, layout)
Dealloc(ptr, size) ==
    /\ mmpc = "idle"
    /\ ncalls < MaxCalls
    /\ IF DeallocIsNoop(size)
       THEN UNCHANGED <<ticket, release, pmem, mmpc>>
       ELSE /\ LockReturns
            /\ ticket' = Wrap(ticket + 1)
            /\ IF ~pmem.some \/ DeallocEndOverflows(ptr, size)
               THEN \* and_then gives None: .expect(..) panics, the guard is never dropped
                    /\ mmpc' = "halted"
                    /\ UNCHANGED <<release, pmem>>
               ELSE /\ pmem' = StoredAfterAndThen(pmem,
                                  Some(RangeSetInsert(pmem.set, Range(ptr, ptr + (size - 1)))))
                    /\ release' = Wrap(release + 1)
                    /\ mmpc' = "idle"
    /\ last' = Call("dealloc", ptr, size, 0, 0, FALSE, ticket)
    /\ live' = {}
    /\ before' = pmem
    /\ ncalls' = ncalls + 1
    /\ UNCHANGED <<add_free_mem, ebx, free_memory, e820, initDone, carry, e820calls, e820tail, walkCalls, job, fin>>
    /\ UNCHANGED <<pc, myTicket, guardTicket, waitq, val, left, wrote, pxeVars, peVars>>

\* init() once lock() has returned: the assert, RangeSet::new() and the set-up
\* of the first walk
InitBegin ==
    /\ IF InitAssertHolds(pmem)
       THEN /\ mmpc' = "walk"
            /\ free_memory' = RangeSetNew
            /\ add_free_mem' = TRUE
            /\ ebx' = 0
       ELSE /\ mmpc' = "halted"
            /\ UNCHANGED <<free_memory, add_free_mem, ebx>>
    /\ walkCalls' = 0

\* init(): lock, the assert, RangeSet::new() and the set-up of the first walk
InitEnter ==
    /\ mmpc = "idle"
    /\ ncalls < MaxCalls
    /\ LockReturns
    /\ ticket' = Wrap(ticket + 1)
    /\ before' = pmem
    /\ ncalls' = ncalls + 1
    /\ last' = Call("init", 0, 0, 0, 0, FALSE, ticket)
    /\ InitBegin
    /\ UNCHANGED <<release, pmem, e820, initDone, live, carry, e820calls, e820tail, job, fin>>
    /\ UNCHANGED <<pc, myTicket, guardTicket, waitq, val, left, wrote, pxeVars, peVars>>

\* `if (regs.efl & 1) != 0 { panic!(..) }` after the E820 call
CarryIgnored(cf) == FALSE
CarrySet(cf) == cf

\* `if regs.ebx == 0 { break; }` at the end of an iteration
LastEntryAlways(cont) == TRUE
LastEntry(cont) == cont = 0

\* init(): one iteration of `loop`: the E820 call, the carry check, the entry,
\* and on continuation 0 the end of the walk; after the second walk the removal
\* of the first MiB, the store into PMEM_FREE and the drop of the guard.
\* (walkCalls < MaxWalkCalls only stops the counting of a walk that never ends.)
InitE820Step(cf) ==
    /\ mmpc = "walk"
    /\ walkCalls < MaxWalkCalls
    /\ carry' = cf
    /\ e820calls' = e820calls + 1
    /\ LET ans == E820Answer(ebx)
           w   == WalkEntry(add_free_mem, ans.entry, free_memory)
       IN  IF CarrySet(cf) \/ w.halt
           THEN /\ mmpc' = "halted"
                /\ walkCalls' = walkCalls + 1
                /\ UNCHANGED <<free_memory, add_free_mem, ebx, pmem, release, initDone>>
           ELSE IF ~LastEntry(ans.ebx)
           THEN /\ free_memory' = w.set
                /\ ebx' = ans.ebx
                /\ walkCalls' = walkCalls + 1
                /\ UNCHANGED <<mmpc, add_free_mem, pmem, release, initDone>>
           ELSE IF add_free_mem
           THEN /\ free_memory' = w.set
                /\ add_free_mem' = FALSE
                /\ ebx' = 0
                /\ walkCalls' = 0
                /\ UNCHANGED <<mmpc, pmem, release, initDone>>
           ELSE /\ free_memory' = RemoveLowMem(w.set)
                /\ pmem' = Some(RemoveLowMem(w.set))
                /\ release' = Wrap(release + 1)
                /\ mmpc' = "idle"
                /\ initDone' = initDone + 1
                /\ ebx' = 0
                /\ add_free_mem' = TRUE
                /\ walkCalls' = 0
    /\ UNCHANGED <<ticket, e820, last, live, ncalls, e820tail>>

\* that iteration, run by the boot thread
InitE820(cf) ==
    /\ InitE820Step(cf)
    /\ UNCHANGED <<before, job, fin>>
    /\ UNCHANGED <<pc, myTicket, guardTicket, waitq, val, left, wrote, pxeVars, peVars>>

(***************************************************************************)
(* mm.rs called from several contexts (SpecBoot): each call is split at    *)
(* PMEM_FREE.lock(), so that calls overlap.                                *)
(***************************************************************************)
NoJob == [op |-> "none", need |-> 0]
NoFin == [op |-> "none", size |-> 0, need |-> 0, done |-> 0]
\* init() calls that have started and not returned
InitsInFlight == Cardinality({d \in Ctx : job[d].op = "init"})

\* PMEM_FREE.lock(), up to the spin loop, as the first statement of a call
BootLock(c, op) ==
    /\ pc[c] = "idle"
    /\ ncalls < MaxCalls
    /\ myTicket' = [myTicket EXCEPT ![c] = ticket]
    /\ ticket' = Wrap(ticket + 1)
    /\ pc' = [pc EXCEPT ![c] = "spin"]
    /\ waitq' = Append(waitq, c)
    /\ job' = [job EXCEPT ![c] = [op |-> op, need |-> initDone + InitsInFlight]]
    /\ ncalls' = ncalls + 1
    /\ UNCHANGED <<release, guardTicket, val, left, wrote>>
    /\ UNCHANGED <<pmem, mmpc, add_free_mem, ebx, free_memory, e820, last, before, initDone,
                   live, carry, e820calls, e820tail, walkCalls, fin>>
    /\ UNCHANGED <<pxeVars, peVars>>

\* a context calls init(), alloc(layout)
BootInit(c) == BootLock(c, "init")
BootAlloc(c) == BootLock(c, "alloc")

\* a context calls dealloc(ptr, layout): the early return for size 0, else lock()
BootDealloc(c, size) ==
    IF DeallocIsNoop(size)
    THEN /\ pc[c] = "idle"
         /\ ncalls < MaxCalls
         /\ ncalls' = ncalls + 1
         /\ fin' = [op |-> "dealloc", size |-> size,
                    need |-> initDone + InitsInFlight, done |-> initDone]
         /\ UNCHANGED <<lockVars, pxeVars, peVars>>
         /\ UNCHANGED <<pmem, mmpc, add_free_mem, ebx, free_memory, e820, last, before, initDone,
                        live, carry, e820calls, e820tail, walkCalls, job>>
    ELSE BootLock(c, "dealloc")

\* init() in a context whose lock() has returned
BootInitBegin(c) ==
    /\ pc[c] = "held"
    /\ job[c].op = "init"
    /\ mmpc = "idle"
    /\ InitBegin
    /\ UNCHANGED <<lockVars, pxeVars, peVars>>
    /\ UNCHANGED <<pmem, e820, last, before, initDone, live, ncalls, carry, e820calls,
                   e820tail, job, fin>>

\* one iteration of init's loop in that context; after the store the guard is
\* dropped and init returns
BootE820(c, cf) ==
    /\ pc[c] = "held"
    /\ job[c].op = "init"
    /\ InitE820Step(cf)
    /\ IF mmpc' = "idle"
       THEN /\ pc' = [pc EXCEPT ![c] = "idle"]
            /\ myTicket' = [myTicket EXCEPT ![c] = 0]
            /\ guardTicket' = [guardTicket EXCEPT ![c] = <<>>]
            /\ job' = [job EXCEPT ![c] = NoJob]
       ELSE UNCHANGED <<pc, myTicket, guardTicket, job>>
    /\ UNCHANGED <<waitq, val, left, wrote, before, fin, pxeVars, peVars>>

\* alloc(layout) in a context whose lock() has returned: the read of PMEM_FREE,
\* and_then, unwrap_or(0), the drop of the guard
BootAllocRun(c, size, align) ==
    /\ pc[c] = "held"
    /\ job[c].op = "alloc"
    /\ before' = pmem
    /\ \E out \in (IF pmem.some THEN RangeSetAllocate(pmem.set, size, align)
                                ELSE {[some |-> FALSE, ptr |-> 0, set |-> {}]}) :
          /\ pmem' = IF pmem.some THEN StoredAfterAndThen(pmem, Some(out.set)) ELSE pmem
          /\ IF AllocUnwrapOr0(out).halt
             THEN /\ job' = [job EXCEPT ![c].op = "halted"]
                  /\ UNCHANGED <<release, pc, myTicket, guardTicket, fin>>
             ELSE /\ release' = Wrap(release + 1)
                  /\ pc' = [pc EXCEPT ![c] = "idle"]
                  /\ myTicket' = [myTicket EXCEPT ![c] = 0]
                  /\ guardTicket' = [guardTicket EXCEPT ![c] = <<>>]
                  /\ job' = [job EXCEPT ![c] = NoJob]
                  /\ fin' = [op |-> "alloc", size |-> size,
                             need |-> job[c].need, done |-> initDone]
    /\ UNCHANGED <<ticket, waitq, val, left, wrote, pxeVars, peVars>>
    /\ UNCHANGED <<mmpc, add_free_mem, ebx, free_memory, e820, last, initDone, live, ncalls,
                   carry, e820calls, e820tail, walkCalls>>

\* dealloc(ptr, layout), size > 0, in a context whose lock() has returned: the
\* read of PMEM_FREE, and_then, expect (a panic keeps the guard), the drop
BootDeallocRun(c, ptr, size) ==
    /\ pc[c] = "held"
    /\ job[c].op = "dealloc"
    /\ ~DeallocIsNoop(size)
    /\ before' = pmem
    /\ IF ~pmem.some \/ DeallocEndOverflows(ptr, size)
       THEN /\ job' = [job EXCEPT ![c].op = "halted"]
            /\ UNCHANGED <<release, pc, myTicket, guardTicket, fin, pmem>>
       ELSE /\ pmem' = StoredAfterAndThen(pmem,
                          Some(RangeSetInsert(pmem.set, Range(ptr, ptr + (size - 1)))))
            /\ release' = Wrap(release + 1)
            /\ pc' = [pc EXCEPT ![c] = "idle"]
            /\ myTicket' = [myTicket EXCEPT ![c] = 0]
            /\ guardTicket' = [guardTicket EXCEPT ![c] = <<>>]
            /\ job' = [job EXCEPT ![c] = NoJob]
            /\ fin' = [op |-> "dealloc", size |-> size,
                       need |-> job[c].need, done |-> initDone]
    /\ UNCHANGED <<ticket, waitq, val, left, wrote, pxeVars, peVars>>
    /\ UNCHANGED <<mmpc, add_free_mem, ebx, free_memory, e820, last, initDone, live, ncalls,
                   carry, e820calls, e820tail, walkCalls>>

(***************************************************************************)
(* bootloader/src/pxe.rs                                                   *)
(***************************************************************************)
\* size of the PXENV+ structure (0x2c) and of the !PXE structure (0x58)
PxenvLen == 44
PxeLen == 88
\* eax after a successful int 0x1a installation check (0x564e)
PxeInstalled == 22094
\* GetFileSize.filename: [u8; 128]
FilenameBufLen == 128

\* b"PXENV+" and b"!PXE"
PxenvSignature == <<80, 88, 69, 78, 86, 43>>
PxeSignature == <<33, 80, 88, 69>>

\* fn segoff_to_linear(seg: u16, off: u16) -> usize
segoff_to_linear(seg, off) == (seg * 16) + off

\* u16::from_le_bytes of the two bytes at 0-based offset o of b
U16LeAt(b, o) == b[o + 1] + 256 * b[o + 2]

\* iter().fold(0u8, |acc, &x| acc.wrapping_add(x)) over the first n bytes of b,
\* left to right; eight bytes are added per step of the recursion to keep the
\* evaluation shallow ((x + y) % 256 is u8::wrapping_add)
RECURSIVE FoldWrappingAdd(_, _)
FoldWrappingAdd(b, n) ==
    IF n = 0 THEN 0
    ELSE IF n < 8 THEN (FoldWrappingAdd(b, n - 1) + b[n]) % 256
    ELSE (FoldWrappingAdd(b, n - 8) + b[n - 7] + b[n - 6] + b[n - 5] + b[n - 4]
          + b[n - 3] + b[n - 2] + b[n - 1] + b[n]) % 256
ChecksumSkipLast(b) == FoldWrappingAdd(b, Len(b) - 1)
Checksum(b) == FoldWrappingAdd(b, Len(b))

\* `signature != b"PXENV+" || length != 0x2c || checksum != 0` is false
PxenvOk(b) ==
    /\ SubSeq(b, 1, 6) = PxenvSignature
    /\ b[9] = PxenvLen
    /\ Checksum(b) = 0

\* `signature != b"!PXE" || length != 0x58 || checksum != 0` is false
PxeOk(b) ==
    /\ SubSeq(b, 1, 4) = PxeSignature
    /\ b[5] = PxeLen
    /\ Checksum(b) = 0

\* `if ep_seg == 0 { return None; }`
EpSegIgnored(seg) == FALSE
EpSegRejected(seg) == seg = 0

\* `regs.eax != 0x564e || (regs.efl & 1) != 0`
PresenceRejectedNoCarry(r) == r.eax /= PxeInstalled
PresenceRejected(r) == r.eax /= PxeInstalled \/ r.cf

\* `filename.len() + 1 > st.filename.len()`
FilenameTooLong(len) == len + 1 > FilenameBufLen

\* <[u8]>::copy_from_slice panics unless both slices have the same length
CopyFromSlicePanics(dstLen, srcLen) == dstLen /= srcLen

\* core::slice::from_raw_parts(addr as *const u8, n): n bytes of firmware memory.
\* Firmware memory is fixed before download runs; the model fixes the content m
\* of an address when it is first read, which gives the same runs.
FwHolds(addr, m) == fwmem[addr] = <<>> \/ fwmem[addr] = m
ReadFw(m, n) == SubSeq(m, 1, n)

PxeSteps == <<"presence", "pxenv", "pxe", "entry", "cached", "fsize">>

\* download: int 0x1a installation check (firmware answers r)
Presence(r) ==
    /\ pxpc = "presence"
    /\ regs' = r
    /\ log' = Append(log, "presence")
    /\ IF PresenceRejected(r)
       THEN pxpc' = "done" /\ ret' = "None"
       ELSE pxpc' = "pxenv" /\ ret' = ret
    /\ fwcalls' = Append(fwcalls, "int 0x1a")
    /\ UNCHANGED <<fwmem, pxenv, pxe, status, server_ip, filenameLen>>
    /\ UNCHANGED <<lockVars, mmVars, peVars>>

\* download: read and validate the PXENV+ structure at es:bx
LocatePxenv(m) ==
    /\ pxpc = "pxenv"
    /\ FwHolds(segoff_to_linear(regs.es, regs.ebx), m)
    /\ fwmem' = [fwmem EXCEPT ![segoff_to_linear(regs.es, regs.ebx)] = m]
    /\ pxenv' = ReadFw(m, PxenvLen)
    /\ IF PxenvOk(ReadFw(m, PxenvLen))
       THEN pxpc' = "pxe" /\ ret' = ret
       ELSE pxpc' = "done" /\ ret' = "None"
    /\ log' = Append(log, "pxenv")
    /\ UNCHANGED <<regs, pxe, status, server_ip, fwcalls, filenameLen>>
    /\ UNCHANGED <<lockVars, mmVars, peVars>>

\* the linear address of the !PXE structure: seg at 0x2a, off at 0x28 of PXENV+
PxeAddr == segoff_to_linear(U16LeAt(pxenv, 42), U16LeAt(pxenv, 40))

\* download: read and validate the !PXE structure the PXENV+ structure points to
\* ("pxe"), then take the entry point from it and refuse a zero segment ("entry")
LocatePxe(m) ==
    /\ pxpc = "pxe"
    /\ FwHolds(PxeAddr, m)
    /\ fwmem' = [fwmem EXCEPT ![PxeAddr] = m]
    /\ pxe' = ReadFw(m, PxeLen)
    /\ IF ~PxeOk(ReadFw(m, PxeLen))
       THEN /\ pxpc' = "done" /\ ret' = "None"
            /\ log' = Append(log, "pxe")
       ELSE /\ log' = log \o <<"pxe", "entry">>
            /\ IF EpSegRejected(U16LeAt(m, 18))
               THEN pxpc' = "done" /\ ret' = "None"
               ELSE pxpc' = "cached" /\ ret' = ret
    /\ UNCHANGED <<regs, pxenv, status, server_ip, fwcalls, filenameLen>>
    /\ UNCHANGED <<lockVars, mmVars, peVars>>

\* `if st.status != 0 { return None; }` after PXE_GET_CACHED_INFO
CachedFailed(st) == st /= 0

\* download: pxecall(.., PXE_GET_CACHED_INFO, ..); the firmware sets st.status
\* and fills pkt_buf (ip: its bytes 0x14..0x18), which is read on success only
CachedInfo(st, ip) ==
    /\ pxpc = "cached"
    /\ status' = st
    /\ fwcalls' = Append(fwcalls, "PXE_GET_CACHED_INFO")
    /\ log' = Append(log, "cached")
    /\ IF CachedFailed(st)
       THEN pxpc' = "done" /\ ret' = "None" /\ server_ip' = server_ip
       ELSE pxpc' = "fsize" /\ ret' = ret /\ server_ip' = ip
    /\ UNCHANGED <<fwmem, regs, pxenv, pxe, filenameLen>>
    /\ UNCHANGED <<lockVars, mmVars, peVars>>

\* download: the file-size block: the room check, copy_from_slice into the
\* 128-byte field, and (only if the copy returns) the pxecall and Some(())
FileSize ==
    /\ pxpc = "fsize"
    /\ log' = Append(log, "fsize")
    /\ IF FilenameTooLong(filenameLen)
       THEN pxpc' = "done" /\ ret' = "None"
       ELSE IF CopyFromSlicePanics(FilenameBufLen, filenameLen)
       THEN pxpc' = "halted" /\ ret' = ret
       ELSE pxpc' = "done" /\ ret' = "Some"
    /\ fwcalls' = IF FilenameTooLong(filenameLen) \/ CopyFromSlicePanics(FilenameBufLen, filenameLen)
                  THEN fwcalls ELSE Append(fwcalls, "PXE_TFTP_GET_FILE_SIZE")
    /\ UNCHANGED <<fwmem, regs, pxenv, pxe, status, server_ip, filenameLen>>
    /\ UNCHANGED <<lockVars, mmVars, peVars>>

(***************************************************************************)
(* shared/pe_parser/src/lib.rs.  A u16, u32, u64 or usize is held as its    *)
(* little-endian bytes (2, 4, 8 or usizeBytes of them), so that every       *)
(* checked operation overflows exactly where the code's does.              *)
(***************************************************************************)
\* IMAGE_FILE_MACHINE_I386 (0x014c) and IMAGE_FILE_MACHINE_AMD64 (0x8664)
IMAGE_FILE_MACHINE_I386 == 332
IMAGE_FILE_MACHINE_AMD64 == 34404
\* b"MZ" and b"PE\0\0"
MzMagic == <<77, 90>>
PeMagic == <<80, 69, 0, 0>>
\* size of the COFF header with the PE signature (0x18), of a section header (0x28)
CoffSize == 24
SectionSize == 40

\* bytes[o..o + n] (the range is known to be in bounds)
Slice(b, o, n) == SubSeq(b, o + 1, o + n)
\* `x as u64`, `x as usize`: zero-extension to w bytes
Widen(d, w) == [i \in 1..w |-> IF i <= Len(d) THEN d[i] ELSE 0]
\* the bytes of a small number n (n < 2^31)
NatLe(n, w) ==
    [i \in 1..w |-> IF i = 1 THEN n % 256
                    ELSE IF i = 2 THEN (n \div 256) % 256
                    ELSE IF i = 3 THEN (n \div 65536) % 256
                    ELSE IF i = 4 THEN n \div 16777216
                    ELSE 0]
\* d < 2^24, and then its value
IsSmall(d) == \A i \in 4..Len(d) : d[i] = 0
ToNat(d) == d[1] + (256 * d[2]) + (65536 * d[3])
\* d > n, for a length n
GtNat(d, n) == ~IsSmall(d) \/ ToNat(d) > n

\* checked_add on two numbers of the same width: None on a carry out of the top byte
RECURSIVE CarryInto(_, _, _)
CarryInto(a, b, i) ==
    IF i = 1 THEN 0 ELSE (a[i - 1] + b[i - 1] + CarryInto(a, b, i - 1)) \div 256
WrappingAdd(a, b) ==
    [some |-> TRUE,
     val  |-> [i \in 1..Len(a) |-> (a[i] + b[i] + CarryInto(a, b, i)) % 256]]
CheckedAdd(a, b) ==
    [some |-> CarryInto(a, b, Len(a) + 1) = 0,
     val  |-> [i \in 1..Len(a) |-> (a[i] + b[i] + CarryInto(a, b, i)) % 256]]

\* a < b for two numbers of the same width; core::cmp::min
LeLt(a, b) == \E i \in 1..Len(a) : a[i] < b[i] /\ \A j \in (i + 1)..Len(a) : a[j] = b[j]
MinKeepRaw(raw_size, virt_size) == raw_size
Min(raw_size, virt_size) == IF LeLt(virt_size, raw_size) THEN virt_size ELSE raw_size

\* `pe_offset + 0x18 + opt_header_size + nsections * 0x28`, the checked sum of
\* parse: pe_offset + 0x18 is at most bytes.len() here, so no step overflows
HeaderSizeNoOpt(pe_offset, opt_header_size, nsections) ==
    pe_offset + CoffSize + (nsections * SectionSize)
HeaderSize(pe_offset, opt_header_size, nsections) ==
    pe_offset + CoffSize + opt_header_size + (nsections * SectionSize)

ParseNone ==
    [some |-> FALSE, panic |-> FALSE, nsections |-> 0, section_off |-> 0,
     image_base |-> <<>>, entry_point |-> <<>>]
\* an index expression `bytes[a..b]` of parse with b > bytes.len()
ParsePanic == [ParseNone EXCEPT !.panic = TRUE]

\* `pe_offset.checked_add(0x18)? > bytes.len()` (the sum does not overflow here)
CoffCutUnchecked(pe_offset, len) == FALSE
CoffCut(pe_offset, len) == pe_offset + CoffSize > len

\* parse, from the COFF header on (po: pe_offset, past the check of po + 0x18)
ParseCoff(b, po) ==
    LET machine == U16LeAt(b, po + 4)
        nsections == U16LeAt(b, po + 6)
        opt_header_size == U16LeAt(b, po + 20)
        image_base ==
            IF machine = IMAGE_FILE_MACHINE_I386
            THEN Widen(Slice(b, po + 52, 4), 8)
            ELSE Slice(b, po + 48, 8)
        entry_point == CheckedAdd(image_base, Widen(Slice(b, po + 40, 4), 8))
    IN  IF po + 6 > Len(b)              \* bytes[pe_offset + 4..pe_offset + 6]
        THEN ParsePanic
        ELSE IF machine /= IMAGE_FILE_MACHINE_I386 /\ machine /= IMAGE_FILE_MACHINE_AMD64
        THEN ParseNone
        ELSE IF po + 22 > Len(b)        \* bytes[pe_offset + 6..pe_offset + 8], bytes[pe_offset + 0x14..pe_offset + 0x16]
        THEN ParsePanic
        ELSE IF po + 56 > Len(b)        \* bytes.get(pe_offset + 0x3_..pe_offset + 0x38)?
        THEN ParseNone
        ELSE IF ~entry_point.some       \* image_base.checked_add(entry_point)?
        THEN ParseNone
        ELSE IF HeaderSize(po, opt_header_size, nsections) > Len(b)
        THEN ParseNone
        ELSE [some |-> TRUE, panic |-> FALSE, nsections |-> nsections,
              section_off |-> po + CoffSize + opt_header_size,
              image_base |-> image_base, entry_point |-> entry_point.val]

\* PeParser::parse(bytes) on a target whose usize has w bytes
Parse(b, w) ==
    IF Len(b) < 2 \/ Slice(b, 0, 2) /= MzMagic
    THEN ParseNone
    ELSE IF Len(b) < 64                 \* bytes.get(0x3c..0x40)?
    THEN ParseNone
    ELSE LET pe_offset == Widen(Slice(b, 60, 4), w)
             sig_end == CheckedAdd(pe_offset, NatLe(4, w))
         IN  IF ~sig_end.some           \* pe_offset.checked_add(4)?
             THEN ParseNone
             ELSE IF GtNat(sig_end.val, Len(b))     \* bytes.get(..) is None
             THEN ParseNone
             ELSE IF Slice(b, ToNat(pe_offset), 4) /= PeMagic
             THEN ParseNone
             ELSE IF ~CheckedAdd(pe_offset, NatLe(CoffSize, w)).some
             THEN ParseNone
             ELSE IF CoffCut(ToNat(pe_offset), Len(b))
             THEN ParseNone
             ELSE ParseCoff(b, ToNat(pe_offset))

\* One iteration of the loop of sections, up to the call of the closure:
\* "panic" (an index out of range), "none" (a `?` returned None) or "call".
VirtAddrWrapping(image_base, virt_addr) == WrappingAdd(image_base, Widen(virt_addr, 8))
VirtAddr(image_base, virt_addr) == CheckedAdd(image_base, Widen(virt_addr, 8))

SectionIter(b, w, ps, i) ==
    LET off == ps.section_off + (i * SectionSize)
        virt_size == Slice(b, off + 8, 4)
        virt_addr == Slice(b, off + 12, 4)
        raw_size == Widen(Min(Slice(b, off + 16, 4), virt_size), w)
        raw_off == Widen(Slice(b, off + 20, 4), w)
        va == VirtAddr(ps.image_base, virt_addr)
        raw_end == CheckedAdd(raw_off, raw_size)
        nothing == [kind |-> "none", vaddr |-> <<>>, vsize |-> <<>>, start |-> 0, data |-> <<>>]
    IN  IF off + 24 > Len(b)
        THEN [nothing EXCEPT !.kind = "panic"]
        ELSE IF ~va.some \/ ~raw_end.some \/ GtNat(raw_end.val, Len(b))
        THEN nothing
        ELSE [kind |-> "call", vaddr |-> va.val, vsize |-> virt_size,
              start |-> ToNat(raw_off), data |-> Slice(b, ToNat(raw_off), ToNat(raw_size))]

\* PeParser::parse(bytes)
PeParse ==
    /\ pepc = "parse"
    /\ parsed' = Parse(bytes, usizeBytes)
    /\ pepc' = IF Parse(bytes, usizeBytes).panic THEN "halted"
               ELSE IF Parse(bytes, usizeBytes).some THEN "sections" ELSE "done"
    /\ UNCHANGED <<img, bytes, usizeBytes, section, cbs, aborted, sret>>
    /\ UNCHANGED <<lockVars, mmVars, pxeVars>>

\* sections(func): one iteration of `for section in 0..self.nsections`; the
\* closure answers Some(()) (cbok) or None
PeSection(cbok) ==
    /\ pepc = "sections"
    /\ section < parsed.nsections
    /\ LET it == SectionIter(bytes, usizeBytes, parsed, section)
       IN  /\ cbs' = IF it.kind = "call"
                     THEN Append(cbs, [vaddr |-> it.vaddr, vsize |-> it.vsize,
                                       start |-> it.start, data |-> it.data])
                     ELSE cbs
           /\ aborted' = (aborted \/ (it.kind = "call" /\ ~cbok))
           /\ IF it.kind = "panic"
              THEN pepc' = "halted" /\ sret' = sret /\ section' = section
              ELSE IF it.kind = "none" \/ ~cbok
              THEN pepc' = "done" /\ sret' = "None" /\ section' = section
              ELSE pepc' = pepc /\ sret' = sret /\ section' = section + 1
    /\ UNCHANGED <<img, bytes, usizeBytes, parsed>>
    /\ UNCHANGED <<lockVars, mmVars, pxeVars>>

\* sections(func): the loop is over, Some(())
PeSectionsEnd ==
    /\ pepc = "sections"
    /\ section = parsed.nsections
    /\ pepc' = "done"
    /\ sret' = "Some"
    /\ UNCHANGED <<img, bytes, usizeBytes, parsed, section, cbs, aborted>>
    /\ UNCHANGED <<lockVars, mmVars, pxeVars>>

(***************************************************************************)
(* SpecPxe: one call of download(filename) against a firmware whose memory *)
(* holds PXENV+ or !PXE candidates at 9000:0010 and at 9C00:0020.          *)
(***************************************************************************)
PtrA == [seg |-> 36864, off |-> 16]
PtrB == [seg |-> 39936, off |-> 32]
FwPtrs == {PtrA, PtrB}
FwAddrs == {segoff_to_linear(p.seg, p.off) : p \in FwPtrs}

Zeros(n) == [i \in 1..n |-> 0]
\* b with the byte at 0-based offset o set so that the byte sum is d modulo 256
SumBytes(b) ==
    LET sum[i \in 0..Len(b)] == IF i = 0 THEN 0 ELSE sum[i - 1] + b[i]
    IN  sum[Len(b)]
WithSum(b, o, d) ==
    [b EXCEPT ![o + 1] = (d + 256 * Len(b) - (SumBytes(b) - b[o + 1])) % 256]
Lo(x) == x % 256
Hi(x) == x \div 256

\* A PXENV+ candidate: signature (or a corrupted one), version byte at 0x6,
\* length byte at 0x8, checksum byte at 0x9, pointer to !PXE at 0x28
PxenvRecord(sigOk, len, ptr, fill, sum) ==
    LET sig == IF sigOk THEN PxenvSignature ELSE <<80, 88, 69, 78, 86, 45>>
        raw == [i \in 1..PxenvLen |->
                   IF i <= 6 THEN sig[i]
                   ELSE IF i = 7 THEN fill
                   ELSE IF i = 9 THEN len
                   ELSE IF i = 41 THEN Lo(ptr.off) ELSE IF i = 42 THEN Hi(ptr.off)
                   ELSE IF i = 43 THEN Lo(ptr.seg) ELSE IF i = 44 THEN Hi(ptr.seg)
                   ELSE 0]
    IN  WithSum(raw, 9, sum)

\* A !PXE candidate: signature, length byte at 0x4, checksum byte at 0x5,
\* revision byte at 0x6, entry point offset:segment at 0x10
PxeRecord(sigOk, len, epseg, fill, sum) ==
    LET sig == IF sigOk THEN PxeSignature ELSE <<33, 80, 88, 70>>
        raw == [i \in 1..PxeLen |->
                   IF i <= 4 THEN sig[i]
                   ELSE IF i = 5 THEN len
                   ELSE IF i = 7 THEN fill
                   ELSE IF i = 17 THEN 0 ELSE IF i = 18 THEN 1
                   ELSE IF i = 19 THEN Lo(epseg) ELSE IF i = 20 THEN Hi(epseg)
                   ELSE 0]
    IN  WithSum(raw, 5, sum)

PxenvRecords ==
    {PxenvRecord(s, l, p, f, d) : s \in BOOLEAN, l \in {PxenvLen, PxenvLen + 1},
                                  p \in FwPtrs, f \in {1, 255}, d \in {0, 1}}
PxeRecords ==
    {PxeRecord(s, l, e, f, d) : s \in BOOLEAN, l \in {PxeLen, PxeLen + 1},
                                e \in {0, 39936}, f \in {0, 255}, d \in {0, 1}}

\* what 0x58 bytes of firmware memory may hold
FwContents == {r \o Zeros(PxeLen - PxenvLen) : r \in PxenvRecords} \cup PxeRecords

\* the int 0x1a answers: eax 0x564e or left at 0x5650, carry, es:bx
PresenceAnswers ==
    {[eax |-> a, cf |-> c, es |-> p.seg, ebx |-> p.off] :
        a \in {PxeInstalled, 22096}, c \in BOOLEAN, p \in FwPtrs}
\* st.status after PXE_GET_CACHED_INFO
CachedStatuses == {0, 1}
\* bytes 0x14..0x18 of the cached DHCP ACK packet: 10.0.0.1 or 192.168.0.1
ServerIps == {<<10, 0, 0, 1>>, <<192, 168, 0, 1>>}
\* filename.len()
FilenameLens == {0, FilenameBufLen - 1, FilenameBufLen}

PxeIdle ==
    /\ pxpc = "presence"
    /\ fwmem = [a \in FwAddrs |-> <<>>]
    /\ regs = [eax |-> 0, cf |-> FALSE, es |-> 0, ebx |-> 0]
    /\ pxenv = <<>>
    /\ pxe = <<>>
    /\ status = 0
    /\ server_ip = <<>>
    /\ fwcalls = <<>>
    /\ filenameLen = 0
    /\ log = <<>>
    /\ ret = "running"

PeIdle ==
    /\ img = <<>>
    /\ bytes = <<>>
    /\ usizeBytes = 8
    /\ pepc = "done"
    /\ parsed = ParseNone
    /\ section = 0
    /\ cbs = <<>>
    /\ aborted = FALSE
    /\ sret = "running"

MMIdle ==
    /\ pmem = None
    /\ mmpc = "idle"
    /\ add_free_mem = TRUE
    /\ ebx = 0
    /\ free_memory = {}
    /\ e820 = <<>>
    /\ last = NoCall
    /\ before = None
    /\ initDone = 0
    /\ live = {}
    /\ ncalls = 0
    /\ carry = FALSE
    /\ e820calls = 0
    /\ e820tail = 0
    /\ walkCalls = 0
    /\ job = [c \in Ctx |-> NoJob]
    /\ fin = NoFin

InitLock == LockInit /\ MMIdle /\ PxeIdle /\ PeIdle

NextLock ==
    \/ \E c \in Ctx : FetchTicket(c)
    \/ \E c \in Ctx : Admit(c)
    \/ \E c \in Ctx : Relock(c)
    \/ \E c \in Ctx : DropGuard(c)

SpecLock == InitLock /\ [][NextLock]_vars

\* the contexts that own a guard (a context inside a second lock() still owns its first)
Holders == {c \in Ctx : pc[c] \in {"held", "relock"}}

\* C1: at most one context holds a guard of the cell in every reachable state.
C1_MutualExclusion == Cardinality(Holders) <= 1

\* C1 witness: one context holds the guard while two others have taken tickets and spin.
C1_Witness == Cardinality(Holders) = 1 /\ Len(waitq) >= 2

\* C2: a context returns from lock() only when it is the earliest ticket taker
\* among those not yet admitted (strict ticket order).
C2_TicketOrder ==
    [][\A c \in Ctx : (pc[c] = "spin" /\ pc'[c] = "held") => c = Head(waitq)]_vars

\* C2 witness: a holder that was admitted after an earlier guard was dropped,
\* with two later ticket takers queued behind it.
C2_Witness ==
    /\ Cardinality(Holders) = 1
    /\ Len(waitq) >= 2
    /\ release >= 1

(***************************************************************************)
(* SpecCell: contexts that lock the cell, read and write the guarded value  *)
(* through the guard, and drop the guard.                                  *)
(***************************************************************************)
NextCell ==
    \/ \E c \in Ctx : FetchTicket(c)
    \/ \E c \in Ctx : Admit(c)
    \/ \E c \in Ctx, v \in CellValues : WriteGuard(c, v)
    \/ \E c \in Ctx : DropGuard(c)

SpecCell == InitLock /\ [][NextCell]_vars

\* C16: across successive lock()/write/drop acquisitions, a guard reads through
\* Deref the value the preceding guard wrote (the value given to new before any
\* write), then its own last write; with no guard out, the cell holds that value.
C16_SequentialHandOff ==
    /\ \A c \in Ctx : pc[c] = "held" =>
           Deref(c) = (IF wrote[c] = <<>> THEN left ELSE wrote[c][1])
    /\ Holders = {} => val = left

\* C16 witness: the third or a later guard is held, has not written yet, and
\* reads a value that an earlier guard wrote over the initial one.
C16_Witness ==
    /\ \E c \in Ctx : pc[c] = "held" /\ wrote[c] = <<>> /\ Deref(c) = 10
    /\ release >= 2

\* C17: once a holder is inside a second lock() on the cell, it stays there
\* (release differs from its new ticket) and no lock() call of any context returns.
C17_RelockDeadlock ==
    [][(\E c \in Ctx : pc[c] = "relock") =>
          /\ \A c \in Ctx : pc[c] = "relock" => (pc'[c] = "relock" /\ release /= myTicket[c])
          /\ \A d \in Ctx : pc'[d] = "held" => pc[d] = "held"]_vars

\* C17 witness: a holder re-locked while one context was already spinning, and
\* another context called lock() afterwards.
C17_Witness ==
    /\ Len(waitq) = 3
    /\ pc[waitq[2]] = "relock"
    /\ pc[waitq[1]] = "spin" /\ pc[waitq[3]] = "spin"

(***************************************************************************)
(* SpecLockFair: contexts that never re-lock, every spin loop keeps being   *)
(* scheduled and every guard is eventually dropped.                        *)
(***************************************************************************)
NextLockFair ==
    \/ \E c \in Ctx : FetchTicket(c)
    \/ \E c \in Ctx : Admit(c)
    \/ \E c \in Ctx : DropGuard(c)

SpecLockFair ==
    /\ InitLock
    /\ [][NextLockFair]_vars
    /\ \A c \in Ctx : WF_vars(Admit(c)) /\ WF_vars(DropGuard(c))

\* C18: every lock() call eventually returns, provided guards are eventually
\* dropped and no holder re-locks.
C18_NoStarvation == \A c \in Ctx : (pc[c] = "spin") ~> (pc[c] = "held")

\* C18 witness: a context waits behind a holder and another waiter while the
\* release counter is at its last value before wrapping around.
C18_Witness ==
    /\ Cardinality(Holders) = 1
    /\ Len(waitq) = 2
    /\ release = (2 ^ CounterBits) - 1

\* lock() calls that took a ticket and have not returned, and guards not dropped
Spinning == {c \in Ctx : pc[c] \in {"spin", "relock"}}
GuardsOut == {c \in Ctx : guardTicket[c] /= <<>>}
Outstanding == Cardinality(Spinning) + Cardinality(GuardsOut)

\* ticket - release modulo the counter width is the number of acquisitions
\* outstanding; a guard is out only for the ticket that equals release
C24_Counters ==
    Outstanding < 2 ^ CounterBits =>
        /\ (ticket + (2 ^ CounterBits) - release) % (2 ^ CounterBits) = Outstanding
        /\ \A c \in GuardsOut : guardTicket[c] = <<release>>
        /\ \A c \in Ctx : pc[c] = "held" => c \in GuardsOut
        /\ \A c \in Spinning : myTicket[c] = release => GuardsOut = {}

\* release moves only by the drop of the guard held for the ticket it equals,
\* by one, and not when it equals ticket; ticket moves by one
C24_CounterStep ==
    /\ release' /= release =>
          /\ release /= ticket
          /\ release' = (release + 1) % (2 ^ CounterBits)
          /\ \E c \in Ctx : guardTicket[c] = <<release>> /\ guardTicket'[c] = <<>>
    /\ (\E c \in Ctx : guardTicket[c] /= <<>> /\ guardTicket'[c] = <<>>) => release' /= release
    /\ ticket' /= ticket => ticket' = (ticket + 1) % (2 ^ CounterBits)

E820Bases == {651264, 1048576, U64Max - 8191}
\* 0, 0x2000 and 0x100000
E820Sizes == {0, 8192, 1048576}
\* 1 is "free"; any other type is reserved
E820Types == {1, 2}
E820Entries == [base : E820Bases, size : E820Sizes, typ : E820Types]
E820Tables == UNION {[1..n -> E820Entries] : n \in 1..MaxEntries}

\* layout.size() and layout.align() of alloc: 0x1000 or 0x200000 bytes, aligned to 1 or 0x10000
AllocSizes == {4096, 2097152}
AllocAligns == {1, 65536}
\* ptr and layout.size() of dealloc: 0x100000, 0x300000, 2^64 - 0x1000; 0, 0x1000, 0x2000 bytes
DeallocPtrs == {1048576, 3145728, U64Max - 4095}
DeallocSizes == {0, 4096, 8192}

InitMM ==
    /\ LockInit
    /\ pmem = None
    /\ mmpc = "idle"
    /\ add_free_mem = TRUE
    /\ ebx = 0
    /\ free_memory = RangeSetNew
    /\ e820 \in E820Tables
    /\ last = NoCall
    /\ before = None
    /\ initDone = 0
    /\ live = {}
    /\ ncalls = 0
    /\ carry = FALSE
    /\ e820calls = 0
    /\ e820tail = 0
    /\ walkCalls = 0
    /\ job = [c \in Ctx |-> NoJob]
    /\ fin = NoFin
    /\ PxeIdle
    /\ PeIdle

NextMM ==
    \/ \E size \in AllocSizes, align \in AllocAligns : Alloc(size, align)
    \/ \E ptr \in DeallocPtrs, size \in DeallocSizes : Dealloc(ptr, size)
    \/ InitEnter
    \/ \E cf \in BOOLEAN : InitE820(cf)

SpecMM == InitMM /\ [][NextMM]_vars

Halted == mmpc = "halted"
\* the byte range of the last call: [ret, ret+size-1] of alloc, [ptr, ptr+size-1] of dealloc
LastAllocRange == Range(last.ret, last.ret + (last.size - 1))
LastDeallocRange == Range(last.ptr, last.ptr + (last.size - 1))
AllocSucceeded == last.op = "alloc" /\ last.ret /= 0 /\ ~Halted

\* C3 (as claimed): after init, the range a successful alloc returns is carved
\* out of the free set stored in PMEM_FREE (no byte of it is free afterwards), and
\* it overlaps no range returned by an earlier alloc since the last dealloc.
C3_AllocCarves ==
    AllocSucceeded => (DisjointFrom(pmem.set, LastAllocRange) /\ ~last.clash)

\* C6 (as claimed): after init, a dealloc with size > 0 and no overflow leaves
\* every byte of [ptr, ptr+size-1] free in the set stored in PMEM_FREE.
C6_DeallocReinserts ==
    (last.op = "dealloc" /\ last.size > 0 /\ before.some /\ ~Halted)
        => (pmem.some /\ Covers(pmem.set, LastDeallocRange))

\* the size > 0 entries of the firmware map, as ranges, by kind
E820Ranges(types) ==
    {Range(e820[i].base, e820[i].base + (e820[i].size - 1)) :
        i \in {j \in 1..Len(e820) : e820[j].size > 0 /\ e820[j].typ \in types}}
\* byte b, by the claim: reported free, not reported as anything else, not in the first MiB
ExpectedFree(b) ==
    /\ IsFree(E820Ranges({1}), b)
    /\ ~IsFree(E820Ranges(E820Types \ {1}), b)
    /\ ~(ULe(0, b) /\ ULe(b, LowMemEnd))
\* Both sets are unions of ranges: they are equal iff they agree on the first and
\* last byte of every range involved and on the bytes next to them.
ProbeBytes ==
    LET rs == E820Ranges(E820Types) \cup pmem.set \cup {Range(0, LowMemEnd)}
    IN  {r.start : r \in rs} \cup {r.end : r \in rs}
        \cup {r.start - 1 : r \in {x \in rs : x.start /= 0}}
        \cup {r.end + 1 : r \in {x \in rs : x.end /= U64Max}}

\* C4: the free set init stores is the union of the size>0 type-1 entries minus
\* every byte of a size>0 entry of another type minus [0, 0xFFFFF].
C4_Sanitized ==
    pmem.some => \A b \in ProbeBytes : IsFree(pmem.set, b) <=> ExpectedFree(b)

\* C4 witness: init completed on a map that reports a reserved entry first and
\* then a free entry overlapping it, and part of the free entry stays free.
C4_Witness ==
    /\ pmem.some
    /\ pmem.set /= {}
    /\ Len(e820) >= 2
    /\ e820[1].typ /= 1 /\ e820[1].size > 0
    /\ e820[2].typ = 1 /\ e820[2].size > 0
    /\ Overlaps(Range(e820[1].base, e820[1].base + (e820[1].size - 1)),
                Range(e820[2].base, e820[2].base + (e820[2].size - 1)))

\* C5: PMEM_FREE is None until an init() has completed and Some from then on;
\* an init() called when it is Some halts (the assert) and leaves it unchanged.
C5_Lifecycle ==
    /\ pmem.some <=> initDone >= 1
    /\ (last.op = "init" /\ before.some) => (Halted /\ pmem = before)

\* C5 witness: a second init() was called after the first one completed.
C5_Witness == last.op = "init" /\ before.some /\ initDone = 1 /\ Halted

\* the tracker has no aligned free region of `size` bytes
NoRoom(S, size, align) ==
    \A x \in S :
        \/ AddOverflows(x.start, align - 1)
        \/ AddOverflows(AlignUp(x.start, align), size - 1)
        \/ ULt(x.end, AlignUp(x.start, align) + (size - 1))

\* C7: alloc returns null, without halting and without changing PMEM_FREE, when
\* PMEM_FREE is None or the tracker has no sufficiently large aligned free region.
C7_AllocNull ==
    (last.op = "alloc" /\ (~before.some \/ NoRoom(before.set, last.size, last.align)))
        => (last.ret = 0 /\ ~Halted /\ pmem = before /\ release = ticket)

\* C7 witness: an alloc after init found no room in a non-empty tracker.
C7_Witness ==
    /\ last.op = "alloc"
    /\ before.some /\ before.set /= {}
    /\ NoRoom(before.set, last.size, last.align)
    /\ last.ret = 0

\* C8: dealloc of size 0 does nothing in any state (no ticket taken, PMEM_FREE
\* unchanged, no halt); dealloc of size > 0 halts when PMEM_FREE is None or when
\* ptr + size - 1 overflows, and PMEM_FREE is unchanged in both cases.
C8_DeallocErrors ==
    last.op = "dealloc" =>
        /\ last.size = 0 => (~Halted /\ pmem = before /\ ticket = last.tk /\ release = ticket)
        /\ (last.size > 0 /\ (~before.some \/ AddOverflows(last.ptr, last.size - 1)))
               => (Halted /\ pmem = before)

\* C8 witness: after init, a dealloc whose end address overflows has halted.
C8_Witness ==
    /\ last.op = "dealloc"
    /\ last.size > 0
    /\ before.some
    /\ AddOverflows(last.ptr, last.size - 1)
    /\ Halted

\* C19: an E820 call that returns with the carry flag set halts init at that
\* call: its entry changes nothing in the set being built, PMEM_FREE is still
\* None, and no E820 call follows.
C19_CarryIsFatal ==
    [][/\ carry' => (mmpc' = "halted" /\ free_memory' = free_memory
                      /\ pmem' = pmem /\ ~pmem'.some)
       /\ carry => e820calls' = e820calls]_vars

\* C19 witness: the carry flag came back in the second walk, after the first
\* walk had inserted free memory.
C19_Witness ==
    /\ carry
    /\ ~add_free_mem
    /\ free_memory /= {}
    /\ e820calls >= 3
    /\ Halted

(***************************************************************************)
(* SpecWalk: init() alone, against a firmware whose E820 list may never    *)
(* end (the continuation returned with the last entry is 0 or leads back   *)
(* into the list).  Each iteration of init's loop is eventually run.       *)
(***************************************************************************)
InitWalk ==
    /\ LockInit
    /\ pmem = None
    /\ mmpc = "idle"
    /\ add_free_mem = TRUE
    /\ ebx = 0
    /\ free_memory = RangeSetNew
    /\ e820 \in E820Tables
    /\ e820tail \in 0..(Len(e820) - 1)
    /\ last = NoCall
    /\ before = None
    /\ initDone = 0
    /\ live = {}
    /\ ncalls = 0
    /\ carry = FALSE
    /\ e820calls = 0
    /\ walkCalls = 0
    /\ job = [c \in Ctx |-> NoJob]
    /\ fin = NoFin
    /\ PxeIdle
    /\ PeIdle

NextWalk ==
    \/ InitEnter
    \/ \E cf \in BOOLEAN : InitE820(cf)

SpecWalk ==
    /\ InitWalk
    /\ [][NextWalk]_vars
    /\ WF_vars(\E cf \in BOOLEAN : InitE820(cf))

\* the continuation the firmware returns with its k-th answer when every call
\* is given the continuation of the answer before it, starting from 0
RECURSIVE ChainCont(_)
ChainCont(k) == IF k = 0 THEN 0 ELSE E820Answer(ChainCont(k - 1)).ebx
\* the entry of that k-th answer
ChainEntry(k) == E820Answer(ChainCont(k - 1)).entry
\* the number of the first answer that carries continuation 0 (0: there is none)
WalkLen ==
    LET zs == {j \in 1..MaxWalkCalls : ChainCont(j) = 0}
    IN  IF zs = {} THEN 0 ELSE CHOOSE j \in zs : \A i \in zs : j <= i
\* the size > 0 entries of the first n answers, as ranges, by kind
ChainRanges(n, types) ==
    {Range(ChainEntry(k).base, ChainEntry(k).base + (ChainEntry(k).size - 1)) :
        k \in {j \in 1..n : ChainEntry(j).size > 0 /\ ChainEntry(j).typ \in types}}
\* byte b is free after walkCalls calls of the current walk, by the claim
WalkExpectedFree(b) ==
    IF add_free_mem
    THEN IsFree(ChainRanges(walkCalls, {1}), b)
    ELSE /\ IsFree(ChainRanges(WalkLen, {1}), b)
         /\ ~IsFree(ChainRanges(walkCalls, E820Types \ {1}), b)
\* first and last bytes of the ranges of S, and the bytes next to them
EdgeBytes(S) ==
    {r.start : r \in S} \cup {r.end : r \in S}
        \cup {r.start - 1 : r \in {x \in S : x.start /= 0}}
        \cup {r.end + 1 : r \in {x \in S : x.end /= U64Max}}
WalkProbe ==
    EdgeBytes(free_memory \cup ChainRanges(IF add_free_mem THEN walkCalls ELSE WalkLen, {1})
                          \cup ChainRanges(IF add_free_mem THEN 0 ELSE walkCalls, E820Types \ {1}))

\* inside a walk: the continuation held is the one the firmware returned last
\* (0 before the first call), no answer so far carried continuation 0, and the
\* set being built reflects the entry of every answer so far
C21_WalkState ==
    /\ mmpc = "walk" =>
        /\ ebx = ChainCont(walkCalls)
        /\ \A j \in 1..walkCalls : ChainCont(j) /= 0
        /\ \A b \in WalkProbe : IsFree(free_memory, b) <=> WalkExpectedFree(b)
    /\ e820tail /= 0 => (add_free_mem /\ initDone = 0)

\* one step: a walk ends only with a call that returns continuation 0, and does
\* end with the first such call; an entry of size 0 leaves the set as it was
\* (after the second walk: as it was above the first MiB)
C21_WalkStep ==
    LET ans    == E820Answer(ebx)
        called == e820calls' /= e820calls
        ended  == add_free_mem' /= add_free_mem
    IN  /\ ended => (called /\ ans.ebx = 0)
        /\ (called /\ ans.ebx = 0 /\ mmpc' /= "halted") => ended
        /\ (called /\ ans.entry.size = 0 /\ mmpc' /= "halted") =>
               IF mmpc' = "idle"
               THEN \A b \in EdgeBytes(free_memory \cup free_memory') :
                        ULt(LowMemEnd, b) => (IsFree(free_memory', b) <=> IsFree(free_memory, b))
               ELSE free_memory' = free_memory

\* a walk over a list that ends is left (by its end, or by a halt)
C21_Terminates ==
    \A p \in BOOLEAN :
        (mmpc = "walk" /\ add_free_mem = p /\ e820tail = 0)
            ~> ~(mmpc = "walk" /\ add_free_mem = p)

\* C21: each walk of init starts with continuation 0, passes the continuation
\* a call returned into the next call, processes the entry of every call up to
\* and including the first one that returns continuation 0, and then stops; an
\* entry of size 0 changes the free set in neither walk; a walk ends iff the
\* firmware returns continuation 0 at some call (halts on the carry flag or on
\* an overflowing entry aside).
C21_Walks == []C21_WalkState /\ [][C21_WalkStep]_vars /\ C21_Terminates

\* C21 witness: the second walk has made its first call, which returned an
\* entry of size 0, and a free entry is still to come.
C21_Witness ==
    /\ mmpc = "walk"
    /\ ~add_free_mem
    /\ walkCalls = 1
    /\ e820tail = 0
    /\ Len(e820) = 2
    /\ e820[1].size = 0
    /\ e820[2].typ = 1 /\ e820[2].size > 0
    /\ free_memory /= {}

\* a walk that never ends: the firmware's list leads back into itself
C21_EndlessWalk == mmpc = "walk" /\ e820tail /= 0 /\ walkCalls = MaxWalkCalls

(***************************************************************************)
(* SpecBoot: the entry point's context calling init, and every context     *)
(* calling alloc / dealloc on PMEM_FREE, their calls overlapping in any    *)
(* way the lock of PMEM_FREE allows.                                       *)
(***************************************************************************)
\* firmware maps of 1 MiB entries at 0x9F000 and 0x100000
BootTables ==
    {t \in E820Tables :
        \A i \in DOMAIN t : t[i].size = 1048576 /\ t[i].base \in {651264, 1048576}}

\* the context of the entry point, the one caller of mm::init()
BootCtx == 1

InitBoot ==
    /\ LockInit
    /\ pmem = None
    /\ mmpc = "idle"
    /\ add_free_mem = TRUE
    /\ ebx = 0
    /\ free_memory = RangeSetNew
    /\ e820 \in BootTables
    /\ e820tail = 0
    /\ last = NoCall
    /\ before = None
    /\ initDone = 0
    /\ live = {}
    /\ ncalls = 0
    /\ carry = FALSE
    /\ e820calls = 0
    /\ walkCalls = 0
    /\ job = [c \in Ctx |-> NoJob]
    /\ fin = NoFin
    /\ PxeIdle
    /\ PeIdle

NextBoot ==
    \/ BootInit(BootCtx)
    \/ \E c \in Ctx : BootAlloc(c)
    \/ \E c \in Ctx, size \in DeallocSizes : BootDealloc(c, size)
    \/ \E c \in Ctx : Admit(c)
    \/ BootInitBegin(BootCtx)
    \/ \E cf \in BOOLEAN : BootE820(BootCtx, cf)
    \/ \E c \in Ctx, size \in AllocSizes, align \in AllocAligns : BootAllocRun(c, size, align)
    \/ \E c \in Ctx, ptr \in DeallocPtrs, size \in DeallocSizes : BootDeallocRun(c, ptr, size)

SpecBoot == InitBoot /\ [][NextBoot]_vars

\* the set S is the free set the firmware map calls for: it agrees with the
\* claimed set on the first and last byte of every range involved and on the
\* bytes next to them
SanitizedSet(S) ==
    \A b \in EdgeBytes(E820Ranges(E820Types) \cup S \cup {Range(0, LowMemEnd)}) :
        IsFree(S, b) <=> ExpectedFree(b)

\* while init walks the map a context running init holds the guard and
\* PMEM_FREE is still None; what PMEM_FREE holds, and what alloc and dealloc
\* read from it, is None or the fully sanitized set
C23_WholeMap ==
    /\ mmpc = "walk" =>
          /\ ~pmem.some
          /\ \E c \in Ctx : pc[c] = "held" /\ job[c].op = "init" /\ myTicket[c] = release
    /\ pmem.some => (initDone >= 1 /\ SanitizedSet(pmem.set))
    /\ before.some => (initDone >= 1 /\ SanitizedSet(before.set))

\* C23 (as claimed): no holder of the PMEM_FREE lock observes a partially built
\* map, and an alloc or dealloc issued while an init is running does not
\* complete before that init has released the guard.
C23_AsClaimed ==
    /\ C23_WholeMap
    /\ fin.op \in {"alloc", "dealloc"} => fin.done >= fin.need

\* C23 (amended): no holder of the PMEM_FREE lock observes a partially built
\* map, and an alloc, or a dealloc of a size other than 0, issued while an init
\* is running does not complete before that init has released the guard.
C23_GuardedMap ==
    /\ C23_WholeMap
    /\ (fin.op = "alloc" \/ (fin.op = "dealloc" /\ fin.size > 0)) => fin.done >= fin.need

\* C23 witness: an alloc issued while init was running has completed after
\* init, having read a non-empty sanitized set.
C23_Witness ==
    /\ fin.op = "alloc"
    /\ fin.need = 1
    /\ fin.done = 1
    /\ before.some
    /\ before.set /= {}

InitPxe ==
    /\ LockInit
    /\ MMIdle
    /\ PeIdle
    /\ pxpc = "presence"
    /\ fwmem = [a \in FwAddrs |-> <<>>]
    /\ regs = [eax |-> 0, cf |-> FALSE, es |-> 0, ebx |-> 0]
    /\ pxenv = <<>>
    /\ pxe = <<>>
    /\ status = 0
    /\ server_ip = <<>>
    /\ fwcalls = <<>>
    /\ filenameLen \in FilenameLens
    /\ log = <<>>
    /\ ret = "running"

NextPxe ==
    \/ \E r \in PresenceAnswers : Presence(r)
    \/ \E m \in FwContents : LocatePxenv(m)
    \/ \E m \in FwContents : LocatePxe(m)
    \/ \E st \in CachedStatuses, ip \in ServerIps : CachedInfo(st, ip)
    \/ FileSize

SpecPxe == InitPxe /\ [][NextPxe]_vars

IsPrefix(s, t) == Len(s) <= Len(t) /\ s = SubSeq(t, 1, Len(s))

\* the byte sum of b[lo..hi]
RECURSIVE SumRange(_, _, _)
SumRange(b, lo, hi) ==
    IF lo > hi THEN 0
    ELSE IF lo = hi THEN b[lo]
    ELSE SumRange(b, lo, (lo + hi) \div 2) + SumRange(b, ((lo + hi) \div 2) + 1, hi)

\* the three checks of a PXENV+ record, as the claim states them
ClaimPxenvValid(b) ==
    /\ Len(b) = 44
    /\ \A i \in 1..6 : b[i] = PxenvSignature[i]
    /\ b[8 + 1] = 44
    /\ SumRange(b, 1, 44) % 256 = 0
\* the three checks of a !PXE record, as the claim states them
ClaimPxeValid(b) ==
    /\ Len(b) = 88
    /\ \A i \in 1..4 : b[i] = PxeSignature[i]
    /\ b[4 + 1] = 88
    /\ SumRange(b, 1, 88) % 256 = 0

\* step s of the negotiation failed, judged from what the firmware supplied
StepFailed(s) ==
    CASE s = "presence" -> regs.eax /= 22094 \/ regs.cf
      [] s = "pxenv"    -> ~ClaimPxenvValid(pxenv)
      [] s = "pxe"      -> ~ClaimPxeValid(pxe)
      [] s = "entry"    -> pxe[19] + 256 * pxe[20] = 0
      [] s = "cached"   -> status /= 0
      [] s = "fsize"    -> filenameLen + 1 > 128

\* C9: the steps run in the order presence check, PXENV+ validation, !PXE
\* validation with the entry segment check, cached-info call, file-size request;
\* no step runs after a failed one, download returns None exactly when the last
\* step run failed, and Some only after all steps ran and succeeded.
C9_NegotiationOrder ==
    /\ IsPrefix(log, PxeSteps)
    /\ \A i \in 1..(Len(log) - 1) : ~StepFailed(log[i])
    /\ ret = "None" <=> (log /= <<>> /\ StepFailed(log[Len(log)]))
    /\ ret = "Some" => (log = PxeSteps /\ \A i \in 1..Len(log) : ~StepFailed(log[i]))

\* C9 witness: both records were accepted, the cached-info call then reported a
\* non-zero status, and download returned None without the file-size step.
C9_Witness ==
    /\ log = SubSeq(PxeSteps, 1, 5)
    /\ status /= 0
    /\ ret = "None"

\* download went on after validating the PXENV+ record / the !PXE record
PxenvAccepted == Len(log) >= 3 \/ (Len(log) = 2 /\ ret = "running")
PxeAccepted == Len(log) >= 4

\* C10: download accepts a PXENV+ record iff signature, length byte and byte
\* sum are right, and a !PXE record likewise; an accepted record with any one
\* byte changed to another value fails download's check.
C10_RecordValidation ==
    /\ Len(log) >= 2 => (PxenvAccepted <=> ClaimPxenvValid(pxenv))
    /\ Len(log) >= 3 => (PxeAccepted <=> ClaimPxeValid(pxe))
    /\ (Len(log) = 2 /\ PxenvAccepted) =>
           \A i \in 1..PxenvLen : \A v \in (0..255) \ {pxenv[i]} :
               ~PxenvOk([pxenv EXCEPT ![i] = v])
    /\ (Len(log) = 4 /\ PxeAccepted) =>
           \A i \in 1..PxeLen : \A v \in (0..255) \ {pxe[i]} :
               ~PxeOk([pxe EXCEPT ![i] = v])

\* C10 witness: both records were read and accepted.
C10_Witness == Len(log) = 4 /\ ret = "running" /\ PxenvAccepted /\ PxeAccepted

(***************************************************************************)
(* SpecPe: PeParser::parse on a synthesized image, then sections with a    *)
(* closure that records its arguments.  The images are laid out from their *)
(* fields, which are written as little-endian 16-bit limbs.                *)
(***************************************************************************)
\* the bytes of a number given by its limbs
LimbBytes(l) ==
    [i \in 1..(2 * Len(l)) |->
        IF i % 2 = 1 THEN l[(i + 1) \div 2] % 256 ELSE l[i \div 2] \div 256]
LimbWiden(l, n) == [i \in 1..n |-> IF i <= Len(l) THEN l[i] ELSE 0]
RECURSIVE LimbCarry(_, _, _)
LimbCarry(a, b, i) ==
    IF i = 1 THEN 0 ELSE (a[i - 1] + b[i - 1] + LimbCarry(a, b, i - 1)) \div 65536
LimbSum(a, b) == [i \in 1..Len(a) |-> (a[i] + b[i] + LimbCarry(a, b, i)) % 65536]
LimbOverflows(a, b) == LimbCarry(a, b, Len(a) + 1) = 1
LimbLt(a, b) == \E i \in 1..Len(a) : a[i] < b[i] /\ \A j \in (i + 1)..Len(a) : a[j] = b[j]
LimbMin(a, b) == IF LimbLt(a, b) THEN a ELSE b

\* bytes of raw data after the headers
DataLen == 8 * 3

\* Section records: virtual size, RVA, raw size, and the raw offset as an offset
\* rel into the raw data (far: the raw offset 0xFFFFFFF8 instead).
SecKinds ==
    {[vsize |-> <<0, 32768>>, vaddr |-> <<4096, 0>>, rsize |-> <<8, 0>>,  rel |-> 0,  far |-> FALSE],
     [vsize |-> <<8, 0>>,     vaddr |-> <<8192, 0>>, rsize |-> <<16, 0>>, rel |-> 8,  far |-> FALSE],
     [vsize |-> <<16, 0>>,    vaddr |-> <<0, 16>>,   rsize |-> <<16, 0>>, rel |-> 8,  far |-> FALSE],
     [vsize |-> <<16, 0>>,    vaddr |-> <<4096, 0>>, rsize |-> <<16, 0>>, rel |-> 16, far |-> FALSE],
     [vsize |-> <<16, 0>>,    vaddr |-> <<4096, 0>>, rsize |-> <<16, 0>>, rel |-> 0,  far |-> TRUE]}
SecTables == UNION {[1..n -> SecKinds] : n \in 0..MaxSections}

\* image bases: 0x400000 and 0xFFF00000 (32-bit field), 0x400000 and 2^64 - 0x100000 (64-bit field)
ImageBases(machine) ==
    IF machine = 34404 THEN {<<0, 64, 0, 0>>, <<0, 65520, 65535, 65535>>}
    ELSE {<<0, 64>>, <<0, 65520>>}
\* entry RVAs: 0x1000 and 0x100000
EntryRvas == {<<4096, 0>>, <<0, 16>>}

PeImg(mz, po, lfanew, sig, machine, opt, base, entry, secs, len) ==
    [mz |-> mz, po |-> po, lfanew |-> lfanew, sig |-> sig, machine |-> machine,
     opt |-> opt, base |-> base, entry |-> entry, secs |-> secs, len |-> len]
\* where the raw data starts, and the length of the whole image
DataStart(po, opt, n) == po + 24 + opt + (40 * n)
FullLen(po, opt, n) == DataStart(po, opt, n) + DataLen

\* images with every field in place: PE header at 0x40 with an optional header
\* of 0x20 bytes or at 0x48 with one of 0x28 bytes, machine 0x14c, 0x8664 or 0x1c0
PeWhole ==
    UNION {{PeImg(TRUE, lay[1], <<lay[1], 0>>, TRUE, m, lay[2], b, e, ss,
                  FullLen(lay[1], lay[2], Len(ss))) :
               lay \in {<<64, 32>>, <<72, 40>>}, b \in ImageBases(m),
               e \in EntryRvas, ss \in SecTables} : m \in {332, 34404, 448}}
\* two whole images, and what is wrong with the variants of them
PeSamples ==
    {PeImg(TRUE, 64, <<64, 0>>, TRUE, 332, 32, <<0, 64>>, <<4096, 0>>,
           <<CHOOSE k \in SecKinds : k.rel = 0 /\ ~k.far>>, FullLen(64, 32, 1)),
     PeImg(TRUE, 64, <<64, 0>>, TRUE, 34404, 40, <<0, 64, 0, 0>>, <<4096, 0>>,
           <<>>, FullLen(64, 40, 0))}
PeDefects ==
    {[p EXCEPT !.mz = FALSE] : p \in PeSamples}
    \cup {[p EXCEPT !.sig = FALSE] : p \in PeSamples}
    \cup {[p EXCEPT !.lfanew = <<65534, 65535>>] : p \in PeSamples}
    \cup {[p EXCEPT !.opt = 0, !.len = FullLen(64, 0, 0)] : p \in {q \in PeSamples : q.secs = <<>>}}
    \cup UNION {{[p EXCEPT !.len = t] : t \in 0..p.len} : p \in PeSamples}
PeImages == PeWhole \cup PeDefects

\* the bytes of image p
PeBytes(p) ==
    LET n == Len(p.secs)
        so == p.po + 24 + p.opt
        d == DataStart(p.po, p.opt, n)
        Field(o, x, i, rest) == IF i > o /\ i <= o + Len(x) THEN x[i - o] ELSE rest
        SecRec(k) == LimbBytes(k.vsize) \o LimbBytes(k.vaddr) \o LimbBytes(k.rsize)
                     \o LimbBytes(IF k.far THEN <<65528, 65535>> ELSE <<d + k.rel, 0>>)
        Sec(i, rest) ==
            IF i > so /\ i <= so + (40 * n)
                 /\ ((i - 1 - so) % 40) >= 8 /\ ((i - 1 - so) % 40) < 24
            THEN SecRec(p.secs[((i - 1 - so) \div 40) + 1])[((i - 1 - so) % 40) - 7]
            ELSE rest
    IN  [i \in 1..p.len |->
            Field(0, IF p.mz THEN <<77, 90>> ELSE <<77, 91>>, i,
            Field(60, LimbBytes(p.lfanew), i,
            Field(p.po, IF p.sig THEN <<80, 69, 0, 0>> ELSE <<80, 69, 0, 1>>, i,
            Field(p.po + 4, LimbBytes(<<p.machine>>), i,
            Field(p.po + 6, LimbBytes(<<n>>), i,
            Field(p.po + 20, LimbBytes(<<p.opt>>), i,
            Field(p.po + 40, LimbBytes(p.entry), i,
            Field(p.po + 56 - Len(LimbBytes(p.base)), LimbBytes(p.base), i,
            Sec(i, 1 + (i % 250))))))))))]

\* the targets the build tool asks for: i586 (4-byte usize) and x86_64 (8)
UsizeWidths == {4, 8}

InitPe ==
    /\ LockInit
    /\ MMIdle
    /\ PxeIdle
    /\ img \in PeImages
    /\ bytes = PeBytes(img)
    /\ usizeBytes \in UsizeWidths
    /\ pepc = "parse"
    /\ parsed = ParseNone
    /\ section = 0
    /\ cbs = <<>>
    /\ aborted = FALSE
    /\ sret = "running"

NextPe ==
    \/ PeParse
    \/ \E cbok \in BOOLEAN : PeSection(cbok)
    \/ PeSectionsEnd

SpecPe == InitPe /\ [][NextPe]_vars

\* C11 (as claimed): a filename with len + 1 > 128 makes download return None,
\* and no firmware call is issued on such a run.
C11_RejectedBeforeFirmware ==
    filenameLen + 1 > 128 =>
        /\ fwcalls = <<>>
        /\ pxpc \in {"done", "halted"} => ret = "None"

\* C12 (as claimed): download never halts or panics, whatever the filename and
\* the firmware's responses; every run ends by returning Some or None.
C12_NeverHalts == pxpc /= "halted"

\* C20: the es:bx of the int 0x1a call are used (to read the PXENV+ structure)
\* only when the call came back without carry and with eax = 0x564e, and the
\* packet buffer of PXE_GET_CACHED_INFO is read only when its status is 0.
C20_CheckedBeforeUse ==
    /\ pxenv /= <<>> => (~regs.cf /\ regs.eax = 22094)
    /\ server_ip /= <<>> => status = 0

\* C20 witness: both calls succeeded and the outputs of both were used.
C20_Witness ==
    /\ pxenv /= <<>>
    /\ server_ip /= <<>>
    /\ fwcalls = <<"int 0x1a", "PXE_GET_CACHED_INFO">>

\* what the fields of image p say, read as the claims read them
PeN(p) == Len(p.secs)
PeBase(p) == LimbWiden(p.base, 4)
PeEntry(p) == LimbWiden(p.entry, 4)
\* "MZ" at 0, "PE\0\0" at the offset stored at 0x3c, a recognized machine type
PeChecksPass(p) ==
    /\ p.mz /\ p.len >= 2
    /\ p.len >= 64 /\ p.lfanew = <<p.po, 0>>
    /\ p.sig /\ p.len >= p.po + 4
    /\ p.len >= p.po + 24
    /\ p.machine \in {332, 34404}

\* C13 (as claimed): parse returns a result iff the magics and the machine type
\* are right and the input is at least pe_offset + 0x18 + nsections * 0x28 long.
C13_HeaderBound ==
    pepc /= "parse" =>
        (parsed.some <=> (PeChecksPass(img) /\ img.len >= img.po + 24 + (40 * PeN(img))))

\* C13 (amended): parse returns a result iff the magics and the machine type are
\* right, the input holds the image-base field (pe_offset + 0x38 bytes), image
\* base + entry RVA fits 64 bits, and the input is at least
\* pe_offset + 0x18 + optional-header size + nsections * 0x28 long.
C13_ParseAccepts ==
    pepc /= "parse" =>
        (parsed.some <=>
            /\ PeChecksPass(img)
            /\ img.len >= img.po + 56
            /\ ~LimbOverflows(PeBase(img), PeEntry(img))
            /\ img.len >= img.po + 24 + img.opt + (40 * PeN(img)))

\* C13 witness: parse accepted an image with two sections and a 0x28-byte
\* optional header whose length is exactly the header size plus the raw data.
C13_Witness ==
    /\ pepc = "sections"
    /\ parsed.some
    /\ parsed.nsections = 2
    /\ img.opt = 40
    /\ section = 0

\* section i of image p (1-based), as the claims describe it
SecStart(p, i) == DataStart(p.po, p.opt, PeN(p)) + p.secs[i].rel
SecLen(p, i) == LimbMin(p.secs[i].vsize, p.secs[i].rsize)[1]
SecBad(p, i) ==
    \/ p.secs[i].far
    \/ LimbMin(p.secs[i].vsize, p.secs[i].rsize)[2] /= 0
    \/ SecStart(p, i) + SecLen(p, i) > p.len
    \/ LimbOverflows(PeBase(p), LimbWiden(p.secs[i].vaddr, 4))
ExpectedCallback(p, i) ==
    [vaddr |-> LimbBytes(LimbSum(PeBase(p), LimbWiden(p.secs[i].vaddr, 4))),
     vsize |-> LimbBytes(p.secs[i].vsize),
     start |-> SecStart(p, i),
     data  |-> [j \in 1..SecLen(p, i) |-> bytes[SecStart(p, i) + j]]]
WellFormed(p) ==
    /\ PeChecksPass(p)
    /\ p.len >= p.po + 56
    /\ ~LimbOverflows(PeBase(p), PeEntry(p))
    /\ p.len >= p.po + 24 + p.opt + (40 * PeN(p))
BadSections(p) == {i \in 1..PeN(p) : SecBad(p, i)}

\* C14: for a well-formed image whose sections all lie in the input, parse
\* yields entry_point = B + E, and sections calls the closure once per section,
\* in table order, with B + a_i, v_i and the min(v_i, r_i) bytes at the raw
\* offset (the closure answering Some(()) each time).
C14_RoundTrip ==
    (pepc /= "parse" /\ WellFormed(img) /\ BadSections(img) = {}) =>
        /\ parsed.some
        /\ parsed.entry_point = LimbBytes(LimbSum(PeBase(img), PeEntry(img)))
        /\ Len(cbs) <= PeN(img)
        /\ \A i \in 1..Len(cbs) : cbs[i] = ExpectedCallback(img, i)
        /\ (pepc = "done" /\ ~aborted) => (sret = "Some" /\ Len(cbs) = PeN(img))

\* C14 witness: sections returned Some(()) after two callbacks on an image for
\* machine 0x8664 whose base has all upper bits set.
C14_Witness ==
    /\ pepc = "done"
    /\ sret = "Some"
    /\ Len(cbs) = 2
    /\ img.machine = 34404
    /\ img.base[4] = 65535

\* C15: when section k is the first whose raw byte range leaves the input or
\* whose base + RVA overflows, sections returns None, the closure was called for
\* the sections before k, in order, and is never called for k or a later one.
C15_AbortAtSection ==
    (pepc /= "parse" /\ WellFormed(img) /\ BadSections(img) /= {}) =>
        LET k == CHOOSE i \in BadSections(img) : \A j \in BadSections(img) : i <= j
        IN  /\ Len(cbs) <= k - 1
            /\ \A i \in 1..Len(cbs) : cbs[i] = ExpectedCallback(img, i)
            /\ pepc = "done" => sret = "None"
            /\ (pepc = "done" /\ ~aborted) => Len(cbs) = k - 1

\* C15 witness: the second of two sections was the first bad one; the closure
\* was called for the first section only and sections returned None.
C15_Witness ==
    /\ pepc = "done"
    /\ sret = "None"
    /\ ~aborted
    /\ WellFormed(img)
    /\ PeN(img) = 2
    /\ BadSections(img) = {2}
    /\ Len(cbs) = 1

\* the offset stored at 0x3c of the image, plus n, is within the input
LfanewPlusFits(p, n) == p.lfanew[2] = 0 /\ p.lfanew[1] + n <= Len(bytes)

\* C22: parse, and sections on an accepted image, never index out of range
\* (no halt) and never use a wrapped sum, on a 4-byte and on an 8-byte usize:
\* when parse accepts, the furthest offsets it computed (pe_offset + 0x38, the
\* end of the section table) are within the input and base + entry RVA fits
\* 64 bits; each call of the closure was given a byte range within the input
\* (raw offset + size fits usize) and a base + RVA that fits 64 bits.
C22_InBounds ==
    /\ pepc /= "halted"
    /\ ~parsed.panic
    /\ parsed.some =>
          /\ LfanewPlusFits(img, 56)
          /\ parsed.section_off + (40 * parsed.nsections) <= Len(bytes)
          /\ ~LimbOverflows(PeBase(img), PeEntry(img))
    /\ \A i \in 1..Len(cbs) :
          /\ cbs[i].start + Len(cbs[i].data) <= Len(bytes)
          /\ ~LimbOverflows(LimbWiden(IF img.secs[i].far THEN <<65528, 65535>>
                                      ELSE <<cbs[i].start, 0>>, usizeBytes \div 2),
                            LimbWiden(LimbMin(img.secs[i].vsize, img.secs[i].rsize),
                                      usizeBytes \div 2))
          /\ ~LimbOverflows(PeBase(img), LimbWiden(img.secs[i].vaddr, 4))

\* C22 witness: on the 4-byte usize, sections called the closure for the first
\* section and returned None at the second, whose raw offset + size does not
\* fit 32 bits.
C22_Witness ==
    /\ usizeBytes = 4
    /\ pepc = "done"
    /\ sret = "None"
    /\ ~aborted
    /\ PeN(img) = 2
    /\ img.secs[2].far
    /\ Len(cbs) = 1
====
